---- MODULE Spec2Model ----
(***************************************************************************)
(* Model of the two batch pipelines of the repository:                     *)
(*   - CurrencyExchangePipeline (src/exchangerates.py)                     *)
(*   - AdDataPipeline (src/timezone_and_currency_unification.py)           *)
(* A behaviour follows one of the two scripts through a bounded number of  *)
(* process invocations (main() constructs a fresh pipeline each time); the *)
(* persisted table is the only state carried from one run to the next.     *)
(***************************************************************************)
EXTENDS Integers, Sequences, FiniteSets, TLC

\* ---------------------------------------------------------------- bounds
\* number of process invocations followed in one behaviour
MaxRuns == 2
\* longest batch drawn as an input of a function under test
MaxLen == 2
\* longest batch the ad-spend source table holds
MaxSrc == 2
\* largest horizon drawn for add_future_placeholders
MaxAhead == 3

\* ------------------------------------------------------ program constants
\* days_ahead default of add_future_placeholders
DefaultDaysAhead == 2
\* year of the sentinel timestamp pendulum.datetime(1999, 1, 1)
SentinelYear == 1999

\* Config.target_currencies (two of the configured currency codes)
target_currencies == <<"CAD", "EUR">>
Currencies == {target_currencies[i] : i \in 1..Len(target_currencies)}

\* ------------------------------------------------------------- sequences
Range(s) == {s[i] : i \in 1..Len(s)}

RECURSIVE SeqsUpTo(_, _)
\* all sequences over S of length at most n
SeqsUpTo(S, n) ==
    IF n = 0 THEN {<<>>}
    ELSE LET shorter == SeqsUpTo(S, n - 1)
         IN  shorter \cup {Append(s, x) : s \in {t \in shorter : Len(t) = n - 1}, x \in S}

\* the subsequence of s at the positions satisfying keep, in order
RECURSIVE SelectIdx(_, _, _)
SelectIdx(s, keep, i) ==
    IF i > Len(s) THEN <<>>
    ELSE IF i \in keep THEN <<s[i]>> \o SelectIdx(s, keep, i + 1)
    ELSE SelectIdx(s, keep, i + 1)

\* ------------------------------------------------------------ Date cells
\* A cell of the Date column keeps the Python type it has at that point:
\*   "str"   an ISO date string        "empty" the empty string
\*   "bad"   a string that is no date  "date"  datetime.date (read from SQL)
\*   "ts"    pandas Timestamp          "NaT"   pandas NaT / SQL NULL
DateStr(d)  == [kind |-> "str", day |-> d]
EmptyStr    == [kind |-> "empty", day |-> 0]
BadStr      == [kind |-> "bad", day |-> 0]
DateObj(d)  == [kind |-> "date", day |-> d]
Timestamp(d) == [kind |-> "ts", day |-> d]
NaT         == [kind |-> "NaT", day |-> 0]

\* pd.to_datetime on one cell: strings and dates are parsed to Timestamps,
\* the empty string becomes NaT; an unparseable string raises (see CanParse)
to_datetime(c) ==
    IF c.kind \in {"str", "date", "ts"} THEN Timestamp(c.day) ELSE NaT
CanParse(c) == c.kind # "bad"

\* cell + timedelta(days=i); NaT stays NaT
AddDays(c, i) ==
    IF c.kind = "NaT" THEN NaT ELSE [kind |-> c.kind, day |-> c.day + i]
\* str + timedelta is a TypeError
CanAddDays(c) == c.kind \in {"date", "ts", "NaT"}

\* ordering used by sort_values("Date"): ascending, NaT last
DateLeq(a, b) ==
    \/ b.kind = "NaT"
    \/ a.kind # "NaT" /\ a.day <= b.day

\* ----------------------------------------------------------- Rate batches
\* A DataFrame: its column set and its rows.  A row carries a Date cell and a
\* value per currency; 0 is null (also the fill of a column the row's source
\* did not have).
Null == 0
NoVal == [c \in Currencies |-> Null]
Row(d, v) == [Date |-> d, val |-> v]
Frame(cols, rows) == [columns |-> cols, rows |-> rows]
EmptyFrame == Frame({}, <<>>)

\* ExchangeRateProcessor results: a value or the exception raised
Ok(v) == [ok |-> TRUE, exc |-> "none", val |-> v]
Raise(e) == [ok |-> FALSE, exc |-> e, val |-> EmptyFrame]

\* ------------------------------------------- ExchangeRateProcessor (rates)
\* An API response (the JSON body of fetch_latest_rates):
\*   data   "absent" | "notmapping" | "mapping", with one item per currency
\*          code: shape "absent" | "flat" (a scalar) | "nested" ({value: ..})
\*   meta   "absent" | "notmapping" | "mapping"
\*   last_updated_at  kind "absent" | "nonstr" | "str"; datepart is the text
\*          before the first "T"
ApiData(data, items, meta, lua) ==
    [data |-> data, items |-> items, meta |-> meta, last_updated_at |-> lua]
Item(shape, v) == [shape |-> shape, value |-> v]
Stamp(kind, datepart) == [kind |-> kind, datepart |-> datepart]

RateData(keys, d, v) == [keys |-> keys, Date |-> d, val |-> v]

\* parse_api_response: flatten `data`, take the date portion of
\* meta.last_updated_at or fall back to date.today().  Only KeyError, TypeError
\* and IndexError are turned into ValueError; .items() on a non-mapping and
\* .split() on a non-string raise AttributeError, which passes through.
parse_api_response(api_data, day) ==
    IF api_data.data = "notmapping" THEN Raise("AttributeError")
    ELSE IF api_data.meta = "notmapping" THEN Raise("ValueError")
    ELSE IF api_data.meta = "mapping" /\ api_data.last_updated_at.kind = "nonstr"
         THEN Raise("AttributeError")
    ELSE
      LET present == IF api_data.data = "mapping"
                     THEN {c \in Currencies : api_data.items[c].shape # "absent"}
                     ELSE {}
          vals == [c \in Currencies |->
                     IF c \in present THEN api_data.items[c].value ELSE Null]
          d == IF api_data.meta = "mapping" /\ api_data.last_updated_at.kind = "str"
               THEN api_data.last_updated_at.datepart
               ELSE DateStr(day)
      IN  Ok(RateData(present \cup {"Date"}, d, vals))

\* create_dataframe: pd.DataFrame([rate_data]), one row, one column per key
create_dataframe(rate_data) ==
    Frame(rate_data.keys, <<Row(rate_data.Date, rate_data.val)>>)

\* pd.concat([a, b], ignore_index=True): union of the columns, rows of a then b
concat(a, b) == Frame(a.columns \cup b.columns, a.rows \o b.rows)

\* drop_duplicates with keep="first" instead
drop_duplicates_keep_first(rows) ==
    SelectIdx(rows,
              {i \in 1..Len(rows) : \A j \in 1..(i - 1) : rows[j].Date # rows[i].Date},
              1)

\* drop_duplicates(subset="Date", keep="last"): a row stays iff no later row
\* has the same Date (NaT equals NaT here)
drop_duplicates_last(rows) ==
    SelectIdx(rows,
              {i \in 1..Len(rows) : \A j \in (i + 1)..Len(rows) : rows[j].Date # rows[i].Date},
              1)

RECURSIVE InsertByDate(_, _)
InsertByDate(sorted, r) ==
    IF sorted = <<>> THEN <<r>>
    ELSE IF DateLeq(sorted[Len(sorted)].Date, r.Date) THEN Append(sorted, r)
    ELSE Append(InsertByDate(SubSeq(sorted, 1, Len(sorted) - 1), r), sorted[Len(sorted)])

RECURSIVE sort_by_date(_)
\* sort_values("Date").reset_index(drop=True): ascending, NaT last
sort_by_date(rows) ==
    IF rows = <<>> THEN <<>>
    ELSE InsertByDate(sort_by_date(SubSeq(rows, 1, Len(rows) - 1)), rows[Len(rows)])

\* a merge that leaves out the final sort_values
merge_with_historical_no_sort(new_data, historical_data) ==
    LET combined == concat(historical_data, new_data)
    IN  IF "Date" \notin combined.columns THEN Raise("KeyError")
        ELSE IF \E i \in 1..Len(combined.rows) : ~CanParse(combined.rows[i].Date)
             THEN Raise("ValueError")
        ELSE LET conv == [i \in 1..Len(combined.rows) |->
                            Row(to_datetime(combined.rows[i].Date), combined.rows[i].val)]
             IN  Ok(Frame(combined.columns, drop_duplicates_last(conv)))

\* merge_with_historical: concat historical then new, normalise Date,
\* keep the last row of each Date, sort by Date
merge_with_historical(new_data, historical_data) ==
    LET combined == concat(historical_data, new_data)
    IN  IF "Date" \notin combined.columns THEN Raise("KeyError")
        ELSE IF \E i \in 1..Len(combined.rows) : ~CanParse(combined.rows[i].Date)
             THEN Raise("ValueError")
        ELSE LET conv == [i \in 1..Len(combined.rows) |->
                            Row(to_datetime(combined.rows[i].Date), combined.rows[i].val)]
             IN  Ok(Frame(combined.columns, sort_by_date(drop_duplicates_last(conv))))

\* the loop run as range(0, days_ahead)
future_rows_from_zero(last_row, days_ahead) ==
    [i \in 1..days_ahead |-> Row(AddDays(last_row.Date, i - 1), last_row.val)]

\* the rows add_future_placeholders appends: copies of the last row dated
\* last_date + 1 .. last_date + days_ahead
future_rows(last_row, days_ahead) ==
    [i \in 1..days_ahead |-> Row(AddDays(last_row.Date, i), last_row.val)]

\* add_future_placeholders: works on df.copy(); `df` is the argument as the
\* call leaves it
add_future_placeholders(df, days_ahead) ==
    IF Len(df.rows) = 0 THEN Ok(df) @@ [df |-> df]
    ELSE IF "Date" \notin df.columns THEN Raise("KeyError") @@ [df |-> df]
    ELSE LET last_row == df.rows[Len(df.rows)]
         IN  IF days_ahead >= 1 /\ ~CanAddDays(last_row.Date)
             THEN Raise("TypeError") @@ [df |-> df]
             ELSE Ok(Frame(df.columns, df.rows \o future_rows(last_row, days_ahead)))
                  @@ [df |-> df]

\* a validator that turns the null warning into a rejection
validate_data_rejects_nulls(df) ==
    IF Len(df.rows) = 0 \/ df.columns = {} THEN FALSE
    ELSE IF ~(({"Date"} \cup Currencies) \subseteq df.columns) THEN FALSE
    ELSE \A i \in 1..Len(df.rows), c \in Currencies : df.rows[i].val[c] # Null

\* a validator that forgets the currency columns
validate_data_no_currencies(df) ==
    IF Len(df.rows) = 0 \/ df.columns = {} THEN FALSE
    ELSE "Date" \in df.columns

\* validate_data: False for an empty frame, a missing Date column or a missing
\* target currency column; nulls in a currency column only log a warning
validate_data(df) ==
    IF Len(df.rows) = 0 \/ df.columns = {} THEN FALSE
    ELSE IF "Date" \notin df.columns THEN FALSE
    ELSE IF \E i \in 1..Len(target_currencies) : target_currencies[i] \notin df.columns
         THEN FALSE
    ELSE TRUE

\* ------------------------------------------------- DatabaseManager (rates)
\* The stored table: whether it exists, its columns, its rows (Date DATE).
Table(exists, cols, rows) == [exists |-> exists, columns |-> cols, rows |-> rows]
NoTable == Table(FALSE, {}, <<>>)

\* SELECT * FROM table WHERE `Date` <= cutoff: NULL dates never match
fetch_historical_data(tbl, cutoff) ==
    Frame(tbl.columns,
          SelectIdx(tbl.rows,
                    {i \in 1..Len(tbl.rows) :
                        tbl.rows[i].Date.kind = "date" /\ tbl.rows[i].Date.day <= cutoff},
                    1))

\* a Date cell as the DATE column stores it
to_sql_date(c) == IF c.kind \in {"ts", "date"} THEN DateObj(c.day) ELSE NaT

\* df.to_sql(if_exists="replace"): the table becomes exactly the batch
to_sql_replace(df) ==
    Table(TRUE, df.columns,
          [i \in 1..Len(df.rows) |-> Row(to_sql_date(df.rows[i].Date), df.rows[i].val)])

\* ================================================================= state
VARIABLES
    pipeline,        \* which script the behaviour follows: "currency" | "ad"
    pc,              \* position inside main() / run()
    runs,            \* process invocations started so far
    today,           \* date.today(), a day number
    days_ahead,      \* horizon handed to add_future_placeholders under test
    error,           \* exception propagating out of run(), "none" if none
    failedStep,      \* the step that raised it
    attempts,        \* per step, how often this run attempted it
    \* --- currency pipeline
    table,           \* the stored rate table (CURRENCY_TABLE_NAME)
    engine,          \* DatabaseManager.engine: "none" | "open" | "disposed"
    session,         \* CurrencyAPIClient.session: "none" | "open" | "closed"
    historical_data, api_response, rate_data, latest_df, merged_data, final_data,
    \* --- ad-spend pipeline
    gbq_table,       \* the warehouse destination table
    timezone_table,  \* account_timezones
    sql_engine,      \* DatabaseConnector.sql_engine
    gbq_client,      \* DatabaseConnector.gbq_client
    source_data, processed_data, error_timezones, ad_historical, ad_merged,
    \* --- what the run did to the outside
    atStart,         \* the pipeline's stored table when the run started
    written,         \* batches handed to the store write in this run
    notified,        \* error lists handed to the email notifier in this run
    pinged           \* outcomes of the health pings sent in this run

ctl == <<pipeline, pc, runs, today, days_ahead, error, failedStep, attempts>>
rateLocals == <<historical_data, api_response, rate_data, latest_df, merged_data, final_data>>
adLocals == <<source_data, processed_data, error_timezones, ad_historical, ad_merged>>
rateConn == <<engine, session>>
adConn == <<sql_engine, gbq_client>>
stores == <<table, gbq_table, timezone_table>>
effects == <<atStart, written, notified, pinged>>
vars == <<ctl, rateLocals, adLocals, rateConn, adConn, stores, effects>>

\* the steps of CurrencyExchangePipeline.run, in order
RateSteps == <<"connect", "fetch_historical", "fetch_latest", "parse", "create_df",
               "merge", "placeholders", "validate", "save", "ping">>
\* the steps of AdDataPipeline.run, in order
AdSteps == <<"setup", "load_source", "process", "notify", "table_exists",
             "read_historical", "merge_datasets", "write", "ping">>
Steps == Range(RateSteps) \cup Range(AdSteps)

\* a run() that tries the failed step again
AfterFailureRetry(step) == step

\* where control goes when a step of run() raises: the except clause logs and
\* re-raises, the finally clause runs next; no step is retried
AfterFailure(step) == "finally"

\* a step of run() raised exc
Fail(step, exc) ==
    /\ pc' = AfterFailure(step)
    /\ error' = exc
    /\ failedStep' = step

Attempt(step) == attempts' = [attempts EXCEPT ![step] = @ + 1]

\* ------------------------------------------------------------ inputs: rates
RateValues == {1, 2}
BothItems(v) == [c \in Currencies |-> IF c = "CAD" THEN Item("nested", v) ELSE Item("flat", v)]
OnlyCad == [c \in Currencies |-> IF c = "CAD" THEN Item("nested", 1) ELSE Item("absent", Null)]
NullEur == [c \in Currencies |-> IF c = "CAD" THEN Item("flat", 1) ELSE Item("flat", Null)]
NoItems == [c \in Currencies |-> Item("absent", Null)]

\* the responses the API may give on a given day
ApiResponses(day) ==
    {ApiData("mapping", BothItems(v), "mapping", Stamp("str", DateStr(day - lag))) :
        v \in RateValues, lag \in {0, 1, 2}}
    \cup {ApiData("mapping", BothItems(1), m[1], m[2]) :
            m \in {<<"absent", Stamp("absent", EmptyStr)>>,
                   <<"mapping", Stamp("absent", EmptyStr)>>,
                   <<"mapping", Stamp("str", EmptyStr)>>,
                   <<"mapping", Stamp("str", BadStr)>>,
                   <<"mapping", Stamp("nonstr", EmptyStr)>>,
                   <<"notmapping", Stamp("absent", EmptyStr)>>}}
    \cup {ApiData(d[1], d[2], "mapping", Stamp("str", DateStr(day - 1))) :
            d \in {<<"mapping", OnlyCad>>, <<"mapping", NullEur>>,
                   <<"absent", NoItems>>, <<"notmapping", NoItems>>}}

StoredRow(d, v) == Row(DateObj(d), [c \in Currencies |-> v])
\* the rate table before the first run followed: created by hand or left by
\* earlier runs (rows up to "tomorrow" of an earlier day)
InitTables ==
    {NoTable,
     Table(TRUE, {"Date"} \cup Currencies, <<>>),
     Table(TRUE, {"Date", "CAD"}, <<>>),
     Table(TRUE, {"Date"} \cup Currencies, <<StoredRow(1, 1)>>),
     Table(TRUE, {"Date"} \cup Currencies,
           <<StoredRow(1, 1), StoredRow(2, 1), StoredRow(3, 1)>>)}

NoResponse == ApiData("absent", NoItems, "absent", Stamp("absent", EmptyStr))
NoRateData == RateData({}, NaT, NoVal)

\* the pipeline's persisted table
Store == IF pipeline = "currency" THEN table ELSE gbq_table

\* ------------------------------------------- CurrencyExchangePipeline.run
\* main(): a new process builds the pipeline (the API client opens its
\* requests.Session in __init__) and enters run()
RateMain ==
    /\ pipeline = "currency"
    /\ pc \in {"boot", "returned", "raised"}
    /\ runs < MaxRuns
    /\ runs' = runs + 1
    /\ today' \in (IF pc = "boot" THEN {today} ELSE {today, today + 1})
    /\ pc' = "connect"
    /\ error' = "none" /\ failedStep' = "none"
    /\ attempts' = [s \in Steps |-> 0]
    /\ session' = "open" /\ engine' = "none"
    /\ historical_data' = EmptyFrame /\ api_response' = NoResponse
    /\ rate_data' = NoRateData /\ latest_df' = EmptyFrame
    /\ merged_data' = EmptyFrame /\ final_data' = EmptyFrame
    /\ atStart' = table /\ written' = <<>> /\ notified' = <<>> /\ pinged' = <<>>
    /\ UNCHANGED <<pipeline, days_ahead, adLocals, adConn, stores>>

\* self.db_manager.connect()
Connect ==
    /\ pipeline = "currency" /\ pc = "connect"
    /\ Attempt("connect")
    /\ \/ /\ engine' = "open"
          /\ pc' = "fetch_historical"
          /\ UNCHANGED <<error, failedStep>>
       \/ /\ Fail("connect", "SQLAlchemyError")
          /\ UNCHANGED engine
    /\ UNCHANGED <<pipeline, days_ahead, runs, today, session, rateLocals, adLocals, adConn, stores, effects>>

\* historical_data = self.db_manager.fetch_historical_data(yesterday)
FetchHistorical ==
    /\ pipeline = "currency" /\ pc = "fetch_historical"
    /\ Attempt("fetch_historical")
    /\ \/ /\ engine = "open" /\ table.exists /\ "Date" \in table.columns
          /\ historical_data' = fetch_historical_data(table, today - 1)
          /\ pc' = "fetch_latest"
          /\ UNCHANGED <<error, failedStep>>
       \/ /\ Fail("fetch_historical",
                  IF engine = "open" THEN "SQLAlchemyError" ELSE "ValueError")
          /\ UNCHANGED historical_data
    /\ UNCHANGED <<pipeline, days_ahead, runs, today, rateConn, adLocals, adConn, stores, effects,
                   api_response, rate_data, latest_df, merged_data, final_data>>

\* api_response = self.api_client.fetch_latest_rates()
FetchLatestRates ==
    /\ pipeline = "currency" /\ pc = "fetch_latest"
    /\ Attempt("fetch_latest")
    /\ \/ /\ api_response' \in ApiResponses(today)
          /\ pc' = "parse"
          /\ UNCHANGED <<error, failedStep>>
       \/ /\ Fail("fetch_latest", "RequestException")
          /\ UNCHANGED api_response
    /\ UNCHANGED <<pipeline, days_ahead, runs, today, rateConn, adLocals, adConn, stores, effects,
                   historical_data, rate_data, latest_df, merged_data, final_data>>

\* rate_data = self.processor.parse_api_response(api_response)
ParseApiResponse ==
    /\ pipeline = "currency" /\ pc = "parse"
    /\ Attempt("parse")
    /\ LET r == parse_api_response(api_response, today)
       IN  IF r.ok
           THEN /\ rate_data' = r.val
                /\ pc' = "create_df"
                /\ UNCHANGED <<error, failedStep>>
           ELSE /\ Fail("parse", r.exc)
                /\ UNCHANGED rate_data
    /\ UNCHANGED <<pipeline, days_ahead, runs, today, rateConn, adLocals, adConn, stores, effects,
                   historical_data, api_response, latest_df, merged_data, final_data>>

\* latest_df = self.processor.create_dataframe(rate_data)
CreateDataframe ==
    /\ pipeline = "currency" /\ pc = "create_df"
    /\ Attempt("create_df")
    /\ latest_df' = create_dataframe(rate_data)
    /\ pc' = "merge"
    /\ UNCHANGED <<pipeline, days_ahead, runs, today, error, failedStep, rateConn, adLocals, adConn,
                   stores, effects, historical_data, api_response, rate_data,
                   merged_data, final_data>>

\* merged_data = self.processor.merge_with_historical(latest_df, historical_data)
MergeWithHistorical ==
    /\ pipeline = "currency" /\ pc = "merge"
    /\ Attempt("merge")
    /\ LET r == merge_with_historical(latest_df, historical_data)
       IN  IF r.ok
           THEN /\ merged_data' = r.val
                /\ pc' = "placeholders"
                /\ UNCHANGED <<error, failedStep>>
           ELSE /\ Fail("merge", r.exc)
                /\ UNCHANGED merged_data
    /\ UNCHANGED <<pipeline, days_ahead, runs, today, rateConn, adLocals, adConn, stores, effects,
                   historical_data, api_response, rate_data, latest_df, final_data>>

\* final_data = self.processor.add_future_placeholders(merged_data)
AddFuturePlaceholders ==
    /\ pipeline = "currency" /\ pc = "placeholders"
    /\ Attempt("placeholders")
    /\ LET r == add_future_placeholders(merged_data, days_ahead)
       IN  /\ merged_data' = r.df
           /\ IF r.ok
              THEN /\ final_data' = r.val
                   /\ pc' = "validate"
                   /\ UNCHANGED <<error, failedStep>>
              ELSE /\ Fail("placeholders", r.exc)
                   /\ UNCHANGED final_data
    /\ UNCHANGED <<pipeline, days_ahead, runs, today, rateConn, adLocals, adConn, stores, effects,
                   historical_data, api_response, rate_data, latest_df>>

\* if not self.processor.validate_data(final_data): raise ValueError
ValidateData ==
    /\ pipeline = "currency" /\ pc = "validate"
    /\ Attempt("validate")
    /\ IF validate_data(final_data)
       THEN /\ pc' = "save"
            /\ UNCHANGED <<error, failedStep>>
       ELSE Fail("validate", "ValueError")
    /\ UNCHANGED <<pipeline, days_ahead, runs, today, rateConn, rateLocals, adLocals, adConn,
                   stores, effects>>

\* what a failed to_sql(if_exists="replace") may leave behind: nothing done,
\* the old table dropped, or the new table created but not filled
FailedReplace(old, df) == {old, NoTable, Table(TRUE, df.columns, <<>>)}

\* self.db_manager.save_exchange_rates(final_data)
SaveExchangeRates ==
    /\ pipeline = "currency" /\ pc = "save"
    /\ Attempt("save")
    /\ written' = Append(written, final_data)
    /\ \/ /\ engine = "open"
          /\ table' = to_sql_replace(final_data)
          /\ pc' = "ping"
          /\ UNCHANGED <<error, failedStep>>
       \/ /\ table' \in FailedReplace(table, final_data)
          /\ Fail("save", "SQLAlchemyError")
    /\ UNCHANGED <<pipeline, days_ahead, runs, today, rateConn, rateLocals, adLocals, adConn,
                   gbq_table, timezone_table, atStart, notified, pinged>>

\* what the liveness endpoint may answer: a 2xx response, or anything that
\* makes requests.get / raise_for_status raise a RequestException
PingResponses == {"ok", "failed"}

\* a ping that lets the RequestException out
ping_health_check_raises(response) ==
    IF response = "ok" THEN "none" ELSE "RequestException"

\* HealthChecker.ping_health_check: the exception that leaves the call; a
\* RequestException is caught and logged
ping_health_check(response) ==
    IF response = "ok" THEN "none" ELSE "none"

\* self.health_checker.ping_health_check()
RatePing ==
    /\ pipeline = "currency" /\ pc = "ping"
    /\ Attempt("ping")
    /\ \E response \in PingResponses :
          /\ pinged' = Append(pinged, response)
          /\ IF ping_health_check(response) = "none"
             THEN pc' = "finally" /\ UNCHANGED <<error, failedStep>>
             ELSE Fail("ping", ping_health_check(response))
    /\ UNCHANGED <<pipeline, days_ahead, runs, today, rateConn, rateLocals,
                   adLocals, adConn, stores, atStart, written, notified>>

\* DatabaseManager.close: dispose the engine if there is one
db_close(e) == IF e = "open" THEN "disposed" ELSE e

\* finally: self.api_client.close(); self.db_manager.close(); then run()
\* returns, or the exception leaves it
RateFinally ==
    /\ pipeline = "currency" /\ pc = "finally"
    /\ session' = "closed"
    /\ engine' = db_close(engine)
    /\ pc' = IF error = "none" THEN "returned" ELSE "raised"
    /\ UNCHANGED <<pipeline, days_ahead, runs, today, error, failedStep, attempts, rateLocals,
                   adLocals, adConn, stores, effects>>

RateNext ==
    \/ RateMain \/ Connect \/ FetchHistorical \/ FetchLatestRates
    \/ ParseApiResponse \/ CreateDataframe \/ MergeWithHistorical
    \/ AddFuturePlaceholders \/ ValidateData \/ SaveExchangeRates
    \/ RatePing \/ RateFinally

InitCommon ==
    /\ pc = "boot" /\ runs = 0 /\ today = 3
    /\ error = "none" /\ failedStep = "none"
    /\ attempts = [s \in Steps |-> 0]
    /\ engine = "none" /\ session = "none"
    /\ api_response = NoResponse /\ rate_data = NoRateData
    /\ merged_data = EmptyFrame
    /\ sql_engine = "none" /\ gbq_client = "none"
    /\ source_data = <<>> /\ processed_data = <<>> /\ error_timezones = {}
    /\ ad_historical = <<>> /\ ad_merged = <<>>
    /\ written = <<>> /\ notified = <<>> /\ pinged = <<>>

RateInit ==
    /\ InitCommon
    /\ pipeline = "currency"
    /\ historical_data = EmptyFrame /\ latest_df = EmptyFrame
    /\ final_data = EmptyFrame
    /\ days_ahead = DefaultDaysAhead
    /\ table \in InitTables
    /\ gbq_table = [exists |-> FALSE, rows |-> <<>>] /\ timezone_table = <<>>
    /\ atStart = table

SpecRate == RateInit /\ [][RateNext]_vars

\* ============================================================ ad-spend data
\* A calendar day and an aware timestamp.  str() of a pendulum DateTime is the
\* ISO text "YYYY-MM-DDTHH:00:00+hh:00"; the record keeps its parts.
Day(y, d) == [year |-> y, day |-> d]
Aware(y, d, h, off) == [year |-> y, day |-> d, hour |-> h, off |-> off]
\* pendulum.datetime(1999, 1, 1): midnight UTC
Sentinel == Aware(SentinelYear, 1, 0, 0)

\* UTC offset, in hours, of the zones pendulum knows (January, no DST)
ValidZones == {"America/New_York", "Asia/Tokyo", "US/Pacific"}
UtcOffset(tz) ==
    CASE tz = "America/New_York" -> 0 - 5
      [] tz = "Asia/Tokyo" -> 9
      [] tz = "US/Pacific" -> 0 - 8
      [] OTHER -> 0

\* the instant an aware timestamp denotes, in hours (365-day years)
Instant(t) == (t.year * 365 + t.day) * 24 + t.hour - t.off

\* dt.in_tz("US/Pacific"): the same instant on the Pacific wall clock
in_tz_pacific(t) ==
    LET off == UtcOffset("US/Pacific")
        h == t.hour - t.off + off
        shift == IF h < 0 THEN 0 - 1 ELSE IF h >= 24 THEN 1 ELSE 0
        d == t.day + shift
        hh == h - 24 * shift
    IN  IF d < 1 THEN Aware(t.year - 1, 365, hh, off)
        ELSE IF d > 365 THEN Aware(t.year + 1, 1, hh, off)
        ELSE Aware(t.year, d, hh, off)

\* order of two source_datetime strings (sort_values compares the text):
\* date, hour, then the offset suffix, where "+hh:00" sorts before "-hh:00"
OffsetTextLeq(a, b) ==
    IF a >= 0 /\ b < 0 THEN TRUE
    ELSE IF a < 0 /\ b >= 0 THEN FALSE
    ELSE IF a >= 0 THEN a <= b
    ELSE b <= a
SdtLeq(x, y) ==
    \/ x.year < y.year
    \/ x.year = y.year /\ x.day < y.day
    \/ x.year = y.year /\ x.day = y.day /\ x.hour < y.hour
    \/ x.year = y.year /\ x.day = y.day /\ x.hour = y.hour /\ OffsetTextLeq(x.off, y.off)

\* the hour column: the raw range "HH:00:00 - HH:59:59", its first half after
\* process_hour_data, or a missing value
Hour(kind, h) == [kind |-> kind, h |-> h]

\* a source row (column names lower-cased, ids and dates as strings)
RawRow(d, hr, acc, adset, amt) ==
    [date_start |-> d, hour |-> hr, account_id |-> acc, ad_set_id |-> adset,
     amount_spend |-> amt]

\* a processed row, as written to and read from the warehouse
AdRow(d, hr, acc, adset, amt, tz, sdt, pdt) ==
    [date_start |-> d, hour |-> hr, account_id |-> acc, ad_set_id |-> adset,
     amount_spend |-> amt, timezone |-> tz, source_datetime |-> sdt,
     pacific_datetime |-> pdt]

\* the dedup key of merge_datasets
Key(r) == <<r.source_datetime, r.account_id, r.ad_set_id>>

\* ------------------------------------------------------------ DataProcessor
\* process_hour_data: keep the first half of the hour range and compose the
\* naive local timestamp date_start + "T" + hour (missing if hour is missing)
process_hour_data(row) ==
    [row EXCEPT !.hour = IF @.kind = "range" THEN Hour("time", @.h) ELSE @]

\* get_timezone_data: timezone = last space-separated token of the raw value
get_timezone_data(tbl) ==
    [i \in 1..Len(tbl) |->
        [adaccount_id |-> tbl[i].adaccount_id,
         timezone |-> tbl[i].timezone[Len(tbl[i].timezone)]]]

\* df.merge(timezone_df, how="left", left_on="account_id",
\* right_on="adaccount_id"): each row once per matching entry, in entry order;
\* a row without entry once, with a missing ("nan") timezone
RECURSIVE left_join(_, _)
left_join(rows, tzdf) ==
    IF rows = <<>> THEN <<>>
    ELSE LET r == rows[1]
             hits == SelectIdx(tzdf,
                               {i \in 1..Len(tzdf) : tzdf[i].adaccount_id = r.account_id}, 1)
             joined == IF hits = <<>> THEN <<r @@ [timezone |-> "nan"]>>
                       ELSE [i \in 1..Len(hits) |-> r @@ [timezone |-> hits[i].timezone]]
         IN  joined \o left_join(Tail(rows), tzdf)

\* parse_datetime_with_timezone: pendulum.parse(source_datetime, tz=timezone),
\* the sentinel when the text or the zone cannot be used
parse_datetime_with_timezone(row) ==
    IF row.hour.kind = "time" /\ row.timezone \in ValidZones
    THEN Aware(row.date_start.year, row.date_start.day, row.hour.h, UtcOffset(row.timezone))
    ELSE Sentinel

\* parse_with_error_tracking: which rows append their timezone to the list
is_error(parsed_dt) == parsed_dt.year = SentinelYear

\* list(set([tz for tz in error_timezones if tz and tz != 'Unknown'])):
\* the empty string is falsy, a missing value (float nan) is not
clean_errors(tzs) == {tz \in tzs : tz # "" /\ tz # "Unknown"}

\* process_timezones on the rows in the given order
process_timezones(rows, tbl) ==
    LET joined == left_join(rows, get_timezone_data(tbl))
        parsed == [i \in 1..Len(joined) |-> parse_datetime_with_timezone(joined[i])]
        errs == {joined[i].timezone : i \in {j \in 1..Len(joined) : is_error(parsed[j])}}
        out == [i \in 1..Len(joined) |->
                  AdRow(joined[i].date_start, joined[i].hour, joined[i].account_id,
                        joined[i].ad_set_id, joined[i].amount_spend, joined[i].timezone,
                        parsed[i], in_tz_pacific(parsed[i]))]
    IN  [df |-> out, error_timezones |-> clean_errors(errs)]

\* drop_duplicates(subset=[source_datetime, account_id, ad_set_id], keep="first")
drop_duplicates_first(rows) ==
    SelectIdx(rows,
              {i \in 1..Len(rows) : \A j \in 1..(i - 1) : Key(rows[j]) # Key(rows[i])}, 1)

\* new_data['source'] = '1. Coupler', historical_data['source'] = '2. GBQ'
Tag(rows, src) == [i \in 1..Len(rows) |-> [source |-> src, row |-> rows[i]]]
\* merged.drop('source', axis=1)
Untag(tagged) == [i \in 1..Len(tagged) |-> tagged[i].row]
\* the source sort run descending
SourceGeq(a, b) == b.source = "1. Coupler" \/ a.source = "2. GBQ"

\* '1. Coupler' < '2. GBQ'
SourceLeq(a, b) == a.source = "1. Coupler" \/ b.source = "2. GBQ"
\* order of two rows in sort_values('source_datetime')
RowSdtLeq(a, b) == SdtLeq(a.source_datetime, b.source_datetime)

\* order of two rows in sort_values('date_start')
DateStartLeq(a, b) ==
    \/ a.date_start.year < b.date_start.year
    \/ a.date_start.year = b.date_start.year /\ a.date_start.day <= b.date_start.day

\* the comparison sort_values makes on the column `by`
ColumnLeq(by, a, b) ==
    CASE by = "date_start" -> DateStartLeq(a, b)
      [] by = "source" -> SourceLeq(a, b)
      [] by = "source_datetime" -> RowSdtLeq(a, b)

\* all orders sort_values(by) may return: it uses quicksort, which keeps no
\* promise about the order of rows with equal keys
SortedOrders(s, by) ==
    LET n == Len(s)
        ps == {p \in Permutations(1..n) :
                  \A i \in 1..(n - 1) : ColumnLeq(by, s[p[i]], s[p[i + 1]])}
    IN  {[i \in 1..n |-> s[p[i]]] : p \in ps}

\* _process_data: sort by date_start, process_hour_data, process_timezones;
\* the set of results the sort's tie order allows
process_data(raw, tbl) ==
    {process_timezones([i \in 1..Len(s) |-> process_hour_data(s[i])], tbl) :
        s \in SortedOrders(raw, "date_start")}

\* merge_datasets from the concatenated, source-tagged rows on: sort by source,
\* keep the first row of each key, drop the tag, sort by source_datetime
merge_tagged(combined) ==
    UNION {SortedOrders(drop_duplicates_first(Untag(s)), "source_datetime") :
             s \in SortedOrders(combined, "source")}

\* merge_datasets: pd.concat([new_data, historical_data]) and the above
merge_datasets(new_data, historical) ==
    merge_tagged(Tag(new_data, "1. Coupler") \o Tag(historical, "2. GBQ"))

\* --------------------------------------------------------- inputs: ad spend
Accounts == {"a1", "a2"}
RawRows ==
    {RawRow(Day(2024, t[1]), Hour("range", t[2]), acc, "s1", 1) :
        t \in {<<1, 0>>, <<1, 1>>, <<2, 0>>}, acc \in Accounts}
\* the batches the source table may hold: up to MaxSrc rows, and one row
\* whose hour is missing
SourceBatches ==
    (SeqsUpTo(RawRows, MaxSrc) \ {<<>>})
    \cup {<<RawRow(Day(2024, 1), Hour("nan", 0), "a1", "s1", 1)>>}

TzEntry(acc, raw) == [adaccount_id |-> acc, timezone |-> raw]
\* account_timezones, one entry per account at most; the raw value may carry
\* a descriptive prefix
TimezoneTables ==
    {<<TzEntry("a1", <<"(GMT-05:00)", "America/New_York">>), TzEntry("a2", <<"Asia/Tokyo">>)>>,
     <<TzEntry("a1", <<"Bad/Zone">>), TzEntry("a2", <<"America/New_York">>)>>,
     <<TzEntry("a1", <<"">>), TzEntry("a2", <<"(GMT+09:00)", "Asia/Tokyo">>)>>,
     <<TzEntry("a1", <<"Bad/Zone">>), TzEntry("a2", <<"">>)>>,
     <<TzEntry("a2", <<"America/New_York">>)>>}

Gbq(exists, rows) == [exists |-> exists, rows |-> rows]
NoGbq == Gbq(FALSE, <<>>)
\* a row an earlier run wrote (amount 9 tells it from this run's rows)
OldRow(d, h, acc, tz) ==
    LET r == [RawRow(Day(2024, d), Hour("time", h), acc, "s1", 9) @@ [timezone |-> tz]
                EXCEPT !.hour = Hour("time", h)]
        t == parse_datetime_with_timezone(r)
    IN  AdRow(r.date_start, r.hour, acc, "s1", 9, tz, t, in_tz_pacific(t))
\* the destination table before the run: missing, or as earlier runs left it
InitGbqTables ==
    {NoGbq,
     Gbq(TRUE, <<OldRow(1, 0, "a1", "America/New_York")>>),
     Gbq(TRUE, <<OldRow(1, 1, "a1", "Bad/Zone"), OldRow(1, 0, "a2", "America/New_York")>>),
     Gbq(TRUE, <<OldRow(1, 1, "a2", "Asia/Tokyo"), OldRow(1, 0, "a2", "Asia/Tokyo"),
                 OldRow(1, 0, "a2", "Asia/Tokyo")>>),
     Gbq(TRUE, <<>>)}

\* ------------------------------------------------------ AdDataPipeline.run
\* main(): a new process builds the pipeline and enters run().  One invocation
\* is followed; InitGbqTables stands for what earlier invocations left.
AdMain ==
    /\ pipeline = "ad"
    /\ pc = "boot"
    /\ runs' = runs + 1
    /\ pc' = "setup"
    /\ error' = "none" /\ failedStep' = "none"
    /\ attempts' = [s \in Steps |-> 0]
    /\ sql_engine' = "none" /\ gbq_client' = "none"
    /\ source_data' = <<>> /\ processed_data' = <<>> /\ error_timezones' = {}
    /\ ad_historical' = <<>> /\ ad_merged' = <<>>
    /\ atStart' = gbq_table /\ written' = <<>> /\ notified' = <<>> /\ pinged' = <<>>
    /\ UNCHANGED <<pipeline, days_ahead, today, rateLocals, rateConn, stores>>

\* self.db_connector.setup_connections(): the SQL engine, then the BigQuery
\* credentials and client; either part may raise
SetupConnections ==
    /\ pipeline = "ad" /\ pc = "setup"
    /\ Attempt("setup")
    /\ \/ /\ sql_engine' = "open" /\ gbq_client' = "open"
          /\ pc' = "load_source"
          /\ UNCHANGED <<error, failedStep>>
       \/ /\ sql_engine' \in {"none", "open"} /\ gbq_client' = "none"
          /\ Fail("setup", "Exception")
    /\ UNCHANGED <<pipeline, days_ahead, runs, today, rateLocals, rateConn, adLocals, stores, effects>>

\* source_data = self._load_source_data()
LoadSourceData ==
    /\ pipeline = "ad" /\ pc = "load_source"
    /\ Attempt("load_source")
    /\ \/ /\ source_data' \in SourceBatches
          /\ pc' = "process"
          /\ UNCHANGED <<error, failedStep>>
       \/ /\ Fail("load_source", "Exception")
          /\ UNCHANGED source_data
    /\ UNCHANGED <<pipeline, days_ahead, runs, today, rateLocals, rateConn, adConn, stores, effects,
                   processed_data, error_timezones, ad_historical, ad_merged>>

\* processed_data, error_timezones = self._process_data(source_data); the
\* timezone lookup inside it reads the relational store and may raise
ProcessData ==
    /\ pipeline = "ad" /\ pc = "process"
    /\ Attempt("process")
    /\ \/ \E r \in process_data(source_data, timezone_table) :
             /\ processed_data' = r.df
             /\ error_timezones' = r.error_timezones
             /\ pc' = "notify"
             /\ UNCHANGED <<error, failedStep>>
       \/ /\ Fail("process", "Exception")
          /\ UNCHANGED <<processed_data, error_timezones>>
    /\ UNCHANGED <<pipeline, days_ahead, runs, today, rateLocals, rateConn, adConn, stores, effects,
                   source_data, ad_historical, ad_merged>>

\* send_error_notification: ', '.join fails on a missing value (a float), the
\* SMTP exchange may fail; either way the exception is logged and swallowed
send_outcomes(tzs) == IF "nan" \in tzs THEN {"failed"} ELSE {"sent", "failed"}

\* a notifier that is called whatever the list holds
notify_always(tzs) == TRUE

\* `if error_timezones:` in run(), `if not error_timezones: return` in the notifier
notify_needed(tzs) == tzs # {}

\* if error_timezones: self.email_notifier.send_error_notification(...)
Notify ==
    /\ pipeline = "ad" /\ pc = "notify"
    /\ Attempt("notify")
    /\ IF notify_needed(error_timezones)
       THEN \E o \in send_outcomes(error_timezones) :
               notified' = Append(notified, [timezones |-> error_timezones, outcome |-> o])
       ELSE UNCHANGED notified
    /\ pc' = "table_exists"
    /\ UNCHANGED <<pipeline, days_ahead, runs, today, error, failedStep, rateLocals, rateConn,
                   adLocals, adConn, stores, atStart, written, pinged>>

\* _handle_data_output: if not self.db_connector.table_exists(gbq_table)
TableExists ==
    /\ pipeline = "ad" /\ pc = "table_exists"
    /\ Attempt("table_exists")
    /\ \/ /\ pc' = IF gbq_table.exists THEN "read_historical" ELSE "write_new"
          /\ UNCHANGED <<error, failedStep>>
       \/ Fail("table_exists", "Exception")
    /\ UNCHANGED <<pipeline, days_ahead, runs, today, rateLocals, rateConn, adLocals, adConn,
                   stores, effects>>

\* historical_data = self.db_connector.read_gbq_query(historical_query)
ReadHistorical ==
    /\ pipeline = "ad" /\ pc = "read_historical"
    /\ Attempt("read_historical")
    /\ \/ /\ gbq_table.exists
          /\ ad_historical' = gbq_table.rows
          /\ pc' = "merge_datasets"
          /\ UNCHANGED <<error, failedStep>>
       \/ /\ Fail("read_historical", "Exception")
          /\ UNCHANGED ad_historical
    /\ UNCHANGED <<pipeline, days_ahead, runs, today, rateLocals, rateConn, adConn, stores, effects,
                   source_data, processed_data, error_timezones, ad_merged>>

\* merged_data = self.data_processor.merge_datasets(processed_data, historical_data)
MergeDatasets ==
    /\ pipeline = "ad" /\ pc = "merge_datasets"
    /\ Attempt("merge_datasets")
    /\ ad_merged' \in merge_datasets(processed_data, ad_historical)
    /\ pc' = "write_merged"
    /\ UNCHANGED <<pipeline, days_ahead, runs, today, error, failedStep, rateLocals, rateConn, adConn,
                   stores, effects, source_data, processed_data, error_timezones,
                   ad_historical>>

\* the batch _handle_data_output hands to write_to_gbq on each branch
output_batch(branch, processed, merged) ==
    IF branch = "write_new" THEN processed ELSE merged

\* self.db_connector.write_to_gbq(..): to_gbq(if_exists="replace")
WriteToGbq ==
    /\ pipeline = "ad" /\ pc \in {"write_new", "write_merged"}
    /\ Attempt("write")
    /\ LET batch == output_batch(pc, processed_data, ad_merged)
       IN  /\ written' = Append(written, batch)
           /\ \/ /\ gbq_table' = Gbq(TRUE, batch)
                 /\ pc' = "ping"
                 /\ UNCHANGED <<error, failedStep>>
              \/ /\ gbq_table' \in {gbq_table, NoGbq, Gbq(TRUE, <<>>)}
                 /\ Fail("write", "Exception")
    /\ UNCHANGED <<pipeline, days_ahead, runs, today, rateLocals, rateConn, adLocals, adConn,
                   table, timezone_table, atStart, notified, pinged>>

\* self.health_checker.ping_health_check() (the same HealthChecker)
AdPing ==
    /\ pipeline = "ad" /\ pc = "ping"
    /\ Attempt("ping")
    /\ \E response \in PingResponses :
          /\ pinged' = Append(pinged, response)
          /\ IF ping_health_check(response) = "none"
             THEN pc' = "finally" /\ UNCHANGED <<error, failedStep>>
             ELSE Fail("ping", ping_health_check(response))
    /\ UNCHANGED <<pipeline, days_ahead, runs, today, rateLocals, rateConn,
                   adLocals, adConn, stores, atStart, written, notified>>

\* DatabaseConnector.close_connections: disposes the SQL engine; the
\* BigQuery client is left as it is
close_connections(conn) ==
    [sql_engine |-> IF conn.sql_engine = "open" THEN "disposed" ELSE conn.sql_engine,
     gbq_client |-> conn.gbq_client]

\* finally: self.db_connector.close_connections(); then run() returns, or the
\* exception leaves it
AdFinally ==
    /\ pipeline = "ad" /\ pc = "finally"
    /\ LET c == close_connections([sql_engine |-> sql_engine, gbq_client |-> gbq_client])
       IN  sql_engine' = c.sql_engine /\ gbq_client' = c.gbq_client
    /\ pc' = IF error = "none" THEN "returned" ELSE "raised"
    /\ UNCHANGED <<pipeline, days_ahead, runs, today, error, failedStep, attempts, rateLocals,
                   rateConn, adLocals, stores, effects>>

AdNext ==
    \/ AdMain \/ SetupConnections \/ LoadSourceData \/ ProcessData \/ Notify
    \/ TableExists \/ ReadHistorical \/ MergeDatasets \/ WriteToGbq
    \/ AdPing \/ AdFinally

AdInit ==
    /\ InitCommon
    /\ pipeline = "ad"
    /\ historical_data = EmptyFrame /\ latest_df = EmptyFrame
    /\ final_data = EmptyFrame
    /\ days_ahead = DefaultDaysAhead
    /\ table = NoTable
    /\ gbq_table \in InitGbqTables
    /\ timezone_table \in TimezoneTables
    /\ atStart = gbq_table

SpecAd == AdInit /\ [][AdNext]_vars

\* either script
Init == RateInit \/ AdInit
Next == RateNext \/ AdNext
Spec == Init /\ [][Next]_vars

\* ============================================ the rate functions on their own
\* ExchangeRateProcessor's functions applied to batches drawn from bounded
\* sets: historical rows as the SQL table returns them, new rows as the
\* parser produces them (ISO strings, possibly the empty string).
FnHistRows == {Row(DateObj(d), [c \in Currencies |-> 1]) : d \in {1, 2}}
FnNewRows ==
    {Row(d, [c \in Currencies |-> v]) : d \in {DateStr(1), DateStr(2), EmptyStr}, v \in {2, 3}}
FnFrames(rows) == {Frame({"Date"} \cup Currencies, s) : s \in SeqsUpTo(rows, MaxLen)}

FnInit ==
    /\ InitCommon
    /\ pipeline = "fn"
    /\ historical_data \in FnFrames(FnHistRows)
    /\ latest_df \in FnFrames(FnNewRows)
    /\ final_data = EmptyFrame
    /\ days_ahead \in 0..MaxAhead
    /\ table = NoTable
    /\ gbq_table = NoGbq /\ timezone_table = <<>>
    /\ atStart = EmptyFrame

\* merge_with_historical(latest_df, historical_data)
FnMerge ==
    /\ pipeline = "fn" /\ pc = "boot"
    /\ Attempt("merge")
    /\ LET r == merge_with_historical(latest_df, historical_data)
       IN  IF r.ok
           THEN /\ merged_data' = r.val
                /\ pc' = "merged"
                /\ UNCHANGED <<error, failedStep>>
           ELSE /\ Fail("merge", r.exc)
                /\ UNCHANGED merged_data
    /\ UNCHANGED <<pipeline, runs, today, days_ahead, rateConn, adLocals, adConn,
                   stores, effects, historical_data, api_response, rate_data, latest_df,
                   final_data>>

\* add_future_placeholders(df, days_ahead) on the historical batch, or on the
\* output of the merge; atStart keeps the argument as it was handed over
FnExtend ==
    /\ pipeline = "fn" /\ pc \in {"boot", "merged"}
    /\ Attempt("placeholders")
    /\ LET df == IF pc = "boot" THEN historical_data ELSE merged_data
           r == add_future_placeholders(df, days_ahead)
       IN  /\ atStart' = df
           /\ IF pc = "boot"
              THEN historical_data' = r.df /\ UNCHANGED merged_data
              ELSE merged_data' = r.df /\ UNCHANGED historical_data
           /\ IF r.ok
              THEN /\ final_data' = r.val
                   /\ pc' = "extended"
                   /\ UNCHANGED <<error, failedStep>>
              ELSE /\ Fail("placeholders", r.exc)
                   /\ UNCHANGED final_data
    /\ UNCHANGED <<pipeline, runs, today, days_ahead, rateConn, adLocals, adConn,
                   stores, written, notified, pinged, api_response, rate_data, latest_df>>

FnNext == FnMerge \/ FnExtend
SpecFn == FnInit /\ [][FnNext]_vars

\* ------------------------------------------------ validate_data on its own
\* The batches handed to validate_data: any subset of the Date and currency
\* columns, up to MaxLen rows, a currency cell either set or null.  A cell of
\* a column the batch does not have is not there (Null in the row).
ValidateRows ==
    {Row(Timestamp(1), [c \in Currencies |-> 1]),
     Row(Timestamp(2), [c \in Currencies |-> IF c = "EUR" THEN Null ELSE 1]),
     Row(Timestamp(2), NoVal)}
OnColumns(cols, r) ==
    Row(IF "Date" \in cols THEN r.Date ELSE NaT,
        [c \in Currencies |-> IF c \in cols THEN r.val[c] ELSE Null])
ValidateFrames ==
    {Frame(cols, [i \in 1..Len(s) |-> OnColumns(cols, s[i])]) :
        cols \in SUBSET ({"Date"} \cup Currencies), s \in SeqsUpTo(ValidateRows, MaxLen)}

ValidateInit ==
    /\ InitCommon
    /\ pipeline = "validate"
    /\ final_data \in ValidateFrames
    /\ historical_data = EmptyFrame /\ latest_df = EmptyFrame
    /\ days_ahead = DefaultDaysAhead
    /\ table = NoTable
    /\ gbq_table = NoGbq /\ timezone_table = <<>>
    /\ atStart = EmptyFrame

\* validate_data(final_data): the verdict is kept in pc, atStart keeps the
\* argument as it was handed over; the function assigns nothing to df
FnValidate ==
    /\ pipeline = "validate" /\ pc = "boot"
    /\ Attempt("validate")
    /\ atStart' = final_data
    /\ pc' = IF validate_data(final_data) THEN "True" ELSE "False"
    /\ UNCHANGED <<pipeline, runs, today, days_ahead, error, failedStep, rateConn,
                   rateLocals, adLocals, adConn, stores, written, notified, pinged>>

SpecValidate == ValidateInit /\ [][FnValidate]_vars

\* ================================================================== claims
UniqueDates(rows) ==
    \A i, j \in 1..Len(rows) : i # j => rows[i].Date # rows[j].Date
AscendingDates(rows) ==
    \A i \in 1..(Len(rows) - 1) : DateLeq(rows[i].Date, rows[i + 1].Date)
UniqueKeys(rows) ==
    \A i, j \in 1..Len(rows) : i # j => Key(rows[i]) # Key(rows[j])
AscendingSdt(rows) ==
    \A i \in 1..(Len(rows) - 1) : RowSdtLeq(rows[i], rows[i + 1])

\* the last row of the new batch whose normalised Date is d
LastNewRow(rows, d) ==
    rows[CHOOSE j \in 1..Len(rows) :
            /\ to_datetime(rows[j].Date) = d
            /\ \A k \in (j + 1)..Len(rows) : to_datetime(rows[k].Date) # d]

SharedDates ==
    {to_datetime(historical_data.rows[i].Date) : i \in 1..Len(historical_data.rows)}
    \cap {to_datetime(latest_df.rows[j].Date) : j \in 1..Len(latest_df.rows)}

\* C1: whenever the historical and the new batch both hold a row of some Date
\* (after normalisation), the merge output holds exactly one row of that Date,
\* and its values are those of the new batch's (last) row of that Date.
C1_NewWins ==
    (pipeline = "fn" /\ pc = "merged") =>
        \A d \in SharedDates :
            LET hits == {k \in 1..Len(merged_data.rows) : merged_data.rows[k].Date = d}
            IN  /\ Cardinality(hits) = 1
                /\ \A k \in hits :
                      merged_data.rows[k].val = LastNewRow(latest_df.rows, d).val

\* a merge of batches sharing a Date has happened
C1_Witness == pipeline = "fn" /\ pc = "merged" /\ SharedDates # {}

\* C2: every batch handed to save_exchange_rates has pairwise distinct Dates
\* and is sorted ascending by Date, and so has the stored table.
C2_FinalizedRateBatch ==
    pipeline = "currency" =>
        /\ \A i \in 1..Len(written) :
              UniqueDates(written[i].rows) /\ AscendingDates(written[i].rows)
        /\ UniqueDates(table.rows) /\ AscendingDates(table.rows)

\* C3: every batch the ad-spend pipeline hands to the warehouse write, on
\* either branch, has a unique (source_datetime, account_id, ad_set_id) key
\* and is sorted ascending by source_datetime.
C3_FinalizedAdBatch ==
    pipeline = "ad" =>
        \A i \in 1..Len(written) : UniqueKeys(written[i]) /\ AscendingSdt(written[i])

\* in `out`, every key a new and a historical row share has exactly one row,
\* and that row is a row of the new batch
PrimaryWinsIn(out, new, hist) ==
    \A n \in Range(new), h \in Range(hist) :
        Key(n) = Key(h) =>
            LET hits == {k \in 1..Len(out) : Key(out[k]) = Key(n)}
            IN  Cardinality(hits) = 1 /\ \A k \in hits : out[k] \in Range(new)

\* C4: when merge_datasets has returned, for every key shared by a new and a
\* historical row its output holds exactly one row of that key and it is a
\* row of the new batch, and the same holds when the two batches are
\* concatenated historical first.
C4_PrimaryWins ==
    (pipeline = "ad" /\ pc = "write_merged") =>
        /\ PrimaryWinsIn(ad_merged, processed_data, ad_historical)
        /\ \A out \in merge_tagged(Tag(ad_historical, "2. GBQ")
                                    \o Tag(processed_data, "1. Coupler")) :
              PrimaryWinsIn(out, processed_data, ad_historical)

\* a merge in which a new and a historical row share the key has happened
C4_Witness ==
    /\ pipeline = "ad" /\ pc = "write_merged"
    /\ \E n \in Range(processed_data), h \in Range(ad_historical) : Key(n) = Key(h)

\* what the validator has to reject, read off the batch
Rejected(df) ==
    \/ Len(df.rows) = 0
    \/ "Date" \notin df.columns
    \/ ~(Currencies \subseteq df.columns)

\* C5: once validation has run on a final batch that must be rejected, the
\* save is never invoked in that run, the run ends in failure with the
\* validation error, and the stored table is as it was when the run started.
C5_ValidationGate ==
    (pipeline = "currency" /\ attempts["validate"] = 1 /\ Rejected(final_data)) =>
        /\ written = <<>> /\ attempts["save"] = 0
        /\ table = atStart
        /\ pc \in {"finally", "raised"}
        /\ error = "ValueError" /\ failedStep = "validate"

\* a run has ended in the validation failure
C5_Witness ==
    pipeline = "currency" /\ pc = "raised" /\ failedStep = "validate" /\ Rejected(final_data)

\* the steps the claim names, in either pipeline
StepsBeforeWrite ==
    {"connect", "setup", "fetch_historical", "read_historical", "fetch_latest",
     "load_source", "parse", "process", "merge", "merge_datasets", "placeholders",
     "validate", "table_exists"}

C7_GuaranteedRelease ==
    pc \in {"returned", "raised"} =>
        /\ session # "open" /\ engine # "open"
        /\ sql_engine # "open" /\ gbq_client # "open"

\* the rows whose parse failed
ErrorRows(rows) == {i \in 1..Len(rows) : rows[i].source_datetime = Sentinel}

\* C8: after process_timezones, a record without a usable timezone (unknown
\* name, empty string, no entry) carries the sentinel and its timezone value is
\* in the error list; a record with a valid timezone and a valid local
\* timestamp carries a real timestamp, its Pacific rendering denotes the same
\* instant, and its timezone is in the list only if another record put it there.
C8_TimezoneOutcome ==
    (pipeline = "ad" /\ attempts["process"] = 1 /\ error = "none") =>
        \A i \in 1..Len(processed_data) :
            LET r == processed_data[i]
            IN  /\ r.timezone \notin ValidZones =>
                      r.source_datetime = Sentinel /\ r.timezone \in error_timezones
                /\ (r.timezone \in ValidZones /\ r.hour.kind = "time") =>
                      /\ r.source_datetime # Sentinel
                      /\ r.pacific_datetime.off = UtcOffset("US/Pacific")
                      /\ Instant(r.pacific_datetime) = Instant(r.source_datetime)
                      /\ r.timezone \in error_timezones =>
                            \E j \in ErrorRows(processed_data) :
                                processed_data[j].timezone = r.timezone

\* C9: once the notify step has run, the notifier was invoked exactly when the
\* error list is non-empty, once and with that list, nothing had been written
\* before it, and control is at the output step without error whatever the
\* outcome of the notification.
C9_NotifyDoesNotGate ==
    pipeline = "ad" =>
        /\ attempts["notify"] = 0 => notified = <<>>
        /\ attempts["table_exists"] = 0 => written = <<>>
        /\ attempts["table_exists"] = 1 => attempts["notify"] = 1
        /\ attempts["notify"] = 1 =>
              /\ Len(notified) = (IF error_timezones # {} THEN 1 ELSE 0)
              /\ \A i \in 1..Len(notified) : notified[i].timezones = error_timezones
              /\ attempts["table_exists"] = 0 => pc = "table_exists" /\ error = "none"

\* a failed notification was followed by a successful write
C9_Witness ==
    /\ pipeline = "ad" /\ pc = "ping"
    /\ Len(notified) = 1 /\ notified[1].outcome = "failed"
    /\ Len(written) = 1

\* C10: for a non-empty, date-sorted batch of N rows and a horizon h,
\* add_future_placeholders returns N + h rows: the N input rows, then for
\* i = 1..h the last row with its Date moved i days on (a missing Date stays
\* missing); an empty batch comes back empty without error; the argument is
\* left as it was.
C10_Placeholders ==
    (pipeline = "fn" /\ pc = "extended") =>
        LET in == atStart.rows
            out == final_data.rows
            N == Len(in)
            arg == IF attempts["merge"] = 0 THEN historical_data ELSE merged_data
        IN  /\ error = "none"
            /\ N = 0 => out = <<>>
            /\ (N > 0 /\ AscendingDates(in)) =>
                  /\ Len(out) = N + days_ahead
                  /\ SubSeq(out, 1, N) = in
                  /\ \A i \in 1..days_ahead :
                        /\ out[N + i].val = in[N].val
                        /\ out[N + i].Date.kind = in[N].Date.kind
                        /\ out[N + i].Date.day =
                              (IF in[N].Date.kind = "NaT" THEN 0 ELSE in[N].Date.day + i)
            /\ arg = atStart

\* a sorted batch of two rows was extended by a horizon of at least two
C10_Witness ==
    /\ pipeline = "fn" /\ pc = "extended"
    /\ Len(atStart.rows) = 2 /\ AscendingDates(atStart.rows)
    /\ days_ahead >= 2 /\ Len(final_data.rows) = 2 + days_ahead

\* C11: validate_data answers False for a batch that is empty (no rows or no
\* columns), lacks the Date column or lacks a target currency column, and True
\* for every other batch, nulls in a present currency column included; the
\* batch is the same before and after the call.
C11_ValidatorVerdicts ==
    (pipeline = "validate" /\ pc # "boot") =>
        /\ pc = (IF \/ Len(atStart.rows) = 0 \/ atStart.columns = {}
                    \/ "Date" \notin atStart.columns
                    \/ \E c \in Currencies : c \notin atStart.columns
                 THEN "False" ELSE "True")
        /\ final_data = atStart

\* a batch with every column and a null currency cell was accepted
C11_Witness ==
    /\ pipeline = "validate" /\ pc = "True"
    /\ \E i \in 1..Len(final_data.rows) : final_data.rows[i].val["EUR"] = Null

\* C12: once parse_api_response has run on a response whose `data` section is
\* absent or is not a mapping, the run has failed at the parse step with
\* ValueError, no Rate Record was returned and nothing was handed to the
\* store write.
C12_FormatError ==
    (pipeline = "currency" /\ attempts["parse"] = 1 /\ api_response.data # "mapping") =>
        /\ failedStep = "parse" /\ error = "ValueError"
        /\ rate_data = NoRateData
        /\ written = <<>>

\* C13: every row of every batch handed to save_exchange_rates, and every row
\* of the stored table, has a Date that is not null.
C13_NonNullDate ==
    pipeline = "currency" =>
        /\ \A i \in 1..Len(written) : \A k \in 1..Len(written[i].rows) :
              written[i].rows[k].Date.kind # "NaT"
        /\ \A k \in 1..Len(table.rows) : table.rows[k].Date.kind # "NaT"

\* the Dates of a batch are pairwise distinct once normalised
DistinctDates(rows) ==
    \A i, j \in 1..Len(rows) :
        i # j => to_datetime(rows[i].Date) # to_datetime(rows[j].Date)

\* C14 as stated: whenever the historical and the new batch have no Date in
\* common, the merge output has historical_count + new_count rows, ascending
\* and without a duplicate Date; in any case it has at most that many rows.
C14_DisjointMergeAsStated ==
    (pipeline = "fn" /\ pc = "merged") =>
        LET sum == Len(historical_data.rows) + Len(latest_df.rows)
        IN  /\ Len(merged_data.rows) <= sum
            /\ SharedDates = {} =>
                  /\ Len(merged_data.rows) = sum
                  /\ AscendingDates(merged_data.rows)
                  /\ UniqueDates(merged_data.rows)

\* C14 amended: whenever the two batches have no Date in common and neither
\* holds a Date twice, the merge output has historical_count + new_count
\* rows; for every input the output is ascending by Date (null last), has no
\* duplicate Date and at most historical_count + new_count rows.
C14_DisjointMerge ==
    (pipeline = "fn" /\ pc = "merged") =>
        LET sum == Len(historical_data.rows) + Len(latest_df.rows)
        IN  /\ Len(merged_data.rows) <= sum
            /\ AscendingDates(merged_data.rows)
            /\ UniqueDates(merged_data.rows)
            /\ (/\ SharedDates = {}
                /\ DistinctDates(historical_data.rows)
                /\ DistinctDates(latest_df.rows)) =>
                  Len(merged_data.rows) = sum

\* two non-empty batches with disjoint, distinct Dates were merged, the new
\* row dated before the historical one
C14_Witness ==
    /\ pipeline = "fn" /\ pc = "merged"
    /\ SharedDates = {}
    /\ DistinctDates(historical_data.rows) /\ DistinctDates(latest_df.rows)
    /\ Len(historical_data.rows) >= 1 /\ Len(latest_df.rows) >= 1
    /\ Len(merged_data.rows) = Len(historical_data.rows) + Len(latest_df.rows)
    /\ merged_data.rows[1].Date = to_datetime(latest_df.rows[1].Date)

\* the stored table a successful write of `batch` leaves
StoredAs(batch) ==
    IF pipeline = "currency" THEN to_sql_replace(batch) ELSE Gbq(TRUE, batch)

\* C15: in a run of either pipeline at most one ping is sent; when one was
\* sent, the single write of the run had completed, no step has failed, and
\* the store holds what was written, whatever the outcome of the ping; a run
\* in which a step failed has sent no ping.
C15_PingAfterSuccess ==
    (pipeline \in {"currency", "ad"}) =>
        /\ Len(pinged) <= 1
        /\ pinged # <<>> =>
              /\ Len(written) = 1
              /\ Store = StoredAs(written[1])
              /\ error = "none" /\ failedStep = "none"
              /\ pc \in {"finally", "returned"}
        /\ failedStep # "none" => pinged = <<>>

\* a run whose ping failed has returned normally
C15_Witness ==
    /\ pipeline \in {"currency", "ad"} /\ pc = "returned"
    /\ pinged = <<"failed">> /\ Len(written) = 1

\* the stored table holds a row dated d
HasDate(tbl, d) == \E k \in 1..Len(tbl.rows) : tbl.rows[k].Date = DateObj(d)

\* C16: once a run of the currency pipeline on day `today` has written the
\* table without error, the table holds a row dated today and a row dated
\* today + 1.
C16_TodayTomorrow ==
    (/\ pipeline = "currency" /\ pc \in {"ping", "finally", "returned"}
     /\ error = "none" /\ attempts["save"] = 1) =>
        HasDate(table, today) /\ HasDate(table, today + 1)

\* the source records are pairwise distinct in (date_start, hour, account_id,
\* ad_set_id)
DistinctRecords(rows) ==
    \A i, j \in 1..Len(rows) :
        i # j => <<rows[i].date_start, rows[i].hour, rows[i].account_id, rows[i].ad_set_id>>
                 # <<rows[j].date_start, rows[j].hour, rows[j].account_id, rows[j].ad_set_id>>

\* account_timezones holds exactly one entry for every account of the batch
OneEntryPerAccount(rows, tbl) ==
    \A i \in 1..Len(rows) :
        Cardinality({k \in 1..Len(tbl) : tbl[k].adaccount_id = rows[i].account_id}) = 1

\* C17: when the run has handed its batch to the warehouse write, the source
\* records being pairwise distinct and every account having one timezone
\* entry, process_timezones returned one row per source record and every one
\* of these rows is in the batch written, sentinel-flagged rows included.
C17_RecordIsolation ==
    (/\ pipeline = "ad" /\ Len(written) = 1
     /\ DistinctRecords(source_data)
     /\ OneEntryPerAccount(source_data, timezone_table)) =>
        /\ Len(processed_data) = Len(source_data)
        /\ \A i \in 1..Len(processed_data) : processed_data[i] \in Range(written[1])
====
